---- MODULE Spec2Model ----
(***************************************************************************)
(* Model of fetch_latest_server_files.js: the update pipeline of main()    *)
(* (mkdir, findLatestServerFile, downloadFile, extractServerFiles,         *)
(* updateRepoFiles, catch / finally) and the pure computations inside it   *)
(* (filter + sort of the file listing, the two regex replacements, the     *)
(* scan for the server JAR).                                               *)
(*                                                                         *)
(* Text is modelled as a flat sequence of tokens, one token standing for   *)
(* a run of characters of the same regex class: "\n" is the line feed,     *)
(* " " a space, "\t" a tab, "SERVER_VERSION=", "COPY", "ADD", ".jar",       *)
(* ".sh", ".zip", "installer", "client" the literals the code's patterns   *)
(* look for, "$&" the replacement pattern of String.prototype.replace,     *)
(* and every other token a run of ordinary non-blank characters.           *)
(***************************************************************************)
EXTENDS Integers, Sequences, FiniteSets, TLC

VARIABLES
    pc,                 \* position of the process
    apiKey,             \* process.env.CURSEFORGE_API_KEY is set
    tempDir,            \* TEMP_DIR exists on disk
    dirReadable,        \* fs.readdir(TEMP_DIR) is permitted
    tempEntries,        \* top-level entries of TEMP_DIR, in readdir order
    zipFile,            \* TEMP_DIR/server-files.zip: absent, old, partial, complete
    fileStream,         \* the write stream of downloadFile: none, open, closed
    response,           \* downloadFile: response.status (0: no response)
    files,              \* response.data of api.getModFiles
    serverFileInfo,     \* result of findLatestServerFile
    launch,             \* content of launch.sh (or Absent)
    docker,             \* content of Dockerfile (or Absent)
    writable,           \* the repository files fs.writeFile can write
    launchShContent,    \* updateRepoFiles: text read from launch.sh
    dockerfileContent,  \* updateRepoFiles: text read from Dockerfile
    serverJarFile,      \* updateRepoFiles: result of findServerJarInTempDir
    err,                \* the operation whose failure ended the try block
    exitCode,           \* exit status of the process (Running while it runs)
    started             \* the stages of main() entered so far, in order

vars == <<pc, apiKey, tempDir, dirReadable, tempEntries, zipFile, fileStream, response,
          files, serverFileInfo, launch, docker, writable, launchShContent,
          dockerfileContent, serverJarFile, err, exitCode, started>>

\* ------------------------------------------------------------ bounds
MaxFiles == 3
MaxLaunchLines == 3
MaxDockerLines == 2
MaxEntries == 3

\* ------------------------------------------------------------ constants
MINECRAFT_VERSION == "1.21"
SERVER_FILE_NAME == <<"server-files", ".zip">>

\* null as the result of findServerJarInTempDir (no name is empty).
Null == <<>>
\* A file that does not exist, where a text is expected.
Absent == <<"<absent>">>
\* file.gameVersion is undefined.
NoTags == <<"<undefined>">>
\* The exit status while the process has not exited.
Running == -1

\* ------------------------------------------------------------ sequences
RECURSIVE Concat(_)
\* The concatenation of a sequence of sequences.
Concat(ss) == IF ss = <<>> THEN <<>> ELSE Head(ss) \o Concat(Tail(ss))

RECURSIVE Join(_)
\* Lines joined by line feeds: the text of a file given by its lines.
Join(ls) ==
    IF ls = <<>> THEN <<>>
    ELSE IF Len(ls) = 1 THEN ls[1]
    ELSE ls[1] \o <<"\n">> \o Join(Tail(ls))

RECURSIVE Lines(_)
\* The lines of a text: what text.split("\n") returns.
Lines(s) ==
    IF \A i \in 1..Len(s) : s[i] /= "\n" THEN <<s>>
    ELSE LET k == CHOOSE i \in 1..Len(s) :
                      s[i] = "\n" /\ \A j \in 1..(i - 1) : s[j] /= "\n"
         IN <<SubSeq(s, 1, k - 1)>> \o Lines(SubSeq(s, k + 1, Len(s)))

\* All sequences over S of length at most n.
SeqUpTo(S, n) == UNION {[1..k -> S] : k \in 0..n}

Min(S) == CHOOSE x \in S : \A y \in S : x <= y
Max(S) == CHOOSE x \in S : \A y \in S : x >= y

\* ------------------------------------------------------------ findLatestServerFile
\* The values of file.gameVersion the listings hold: the property missing, or
\* an array of version tags.
GameVersions == {NoTags, <<"1.21.1">>, <<"1.21">>, <<"1.20", "1.21">>}
\* serverPackFileId: 0 stands for a missing, null or zero id (falsy).
PackIds == {0, 7}
FileDates == 1..2
FileNames == {<<"pack-1", ".zip">>}

FileMetadata ==
    [gameVersion : GameVersions, serverPackFileId : PackIds,
     fileDate : FileDates, fileName : FileNames]

\* Array.prototype.includes: membership by equality.
Includes(arr, x) == \E i \in 1..Len(arr) : arr[i] = x

\* A faulty variant of Eligible that forgets the serverPackFileId test.
EligibleNoPackId(file) ==
    IF file.gameVersion = NoTags THEN FALSE
    ELSE Includes(file.gameVersion, MINECRAFT_VERSION)

\* The filter callback: entries without gameVersion are skipped, the others
\* must have a truthy serverPackFileId and list MINECRAFT_VERSION.
Eligible(file) ==
    IF file.gameVersion = NoTags THEN FALSE
    ELSE file.serverPackFileId /= 0
         /\ Includes(file.gameVersion, MINECRAFT_VERSION)

RECURSIVE FilterIdx(_, _)
\* files.filter(...), as the indices of the kept entries in listing order.
FilterIdx(fs, i) ==
    IF i > Len(fs) THEN <<>>
    ELSE (IF Eligible(fs[i]) THEN <<i>> ELSE <<>>) \o FilterIdx(fs, i + 1)

Candidates(fs) == FilterIdx(fs, 1)

\* A faulty variant of Compare with the operands swapped: ascending dates.
CompareAscending(fs, a, b) == fs[a].fileDate - fs[b].fileDate

\* The sort comparator: new Date(b.fileDate) - new Date(a.fileDate).
Compare(fs, a, b) == fs[b].fileDate - fs[a].fileDate

RECURSIVE InsertSorted(_, _, _)
\* x put into the sorted sequence s behind every element it does not precede.
InsertSorted(fs, s, x) ==
    IF s = <<>> THEN <<x>>
    ELSE IF Compare(fs, x, Head(s)) < 0 THEN <<x>> \o s
    ELSE <<Head(s)>> \o InsertSorted(fs, Tail(s), x)

RECURSIVE SortFrom(_, _, _)
SortFrom(fs, s, acc) ==
    IF s = <<>> THEN acc
    ELSE SortFrom(fs, Tail(s), InsertSorted(fs, acc, Head(s)))

\* Array.prototype.sort with the comparator: a stable sort.
Sort(fs, s) == SortFrom(fs, s, <<>>)

\* .filter(...).sort(...)[0]: the index of the chosen entry, 0 for undefined.
LatestIndex(fs) ==
    LET sorted == Sort(fs, Candidates(fs))
    IN IF sorted = <<>> THEN 0 ELSE sorted[1]

\* fileName.replace(/\.zip$/, '')
StripZip(name) ==
    IF name /= <<>> /\ name[Len(name)] = ".zip"
    THEN SubSeq(name, 1, Len(name) - 1) ELSE name

\* The object findLatestServerFile returns for listing entry i.
NoInfo == [downloadUrl |-> 0, modpackVersion |-> <<>>, fileName |-> <<>>, index |-> 0]

FileInfo(fs, i) ==
    [downloadUrl |-> fs[i].serverPackFileId,
     modpackVersion |-> StripZip(fs[i].fileName),
     fileName |-> fs[i].fileName,
     index |-> i]

\* ------------------------------------------------------------ regular expressions
\* \s : white space, which includes the line feed.
IsWs(t) == t \in {" ", "\t", "\n"}
\* ^ under the m flag: the start of the text or of a line.
IsLineStart(s, i) == i = 1 \/ s[i - 1] = "\n"

RECURSIVE DotRunEnd(_, _)
\* Where a greedy .* that starts at i ends: the dot matches no line feed, and
\* $ under the m flag holds right there.
DotRunEnd(s, i) ==
    IF i > Len(s) \/ s[i] = "\n" THEN i - 1 ELSE DotRunEnd(s, i + 1)

RECURSIVE WsRunEnd(_, _)
\* Where the longest \s* that starts at i ends.
WsRunEnd(s, i) ==
    IF i > Len(s) \/ ~IsWs(s[i]) THEN i - 1 ELSE WsRunEnd(s, i + 1)

RECURSIVE NonSpaceRunEnd(_, _)
\* Where the longest [^ ]* that starts at i ends: every token but the space,
\* so tabs and line feeds belong to the run.
NonSpaceRunEnd(s, i) ==
    IF i > Len(s) \/ s[i] = " " THEN i - 1 ELSE NonSpaceRunEnd(s, i + 1)

\* The replacement string expanded for a match: $& is the matched text.
GetSubstitution(template, matched) ==
    Concat([k \in 1..Len(template) |->
               IF template[k] = "$&" THEN matched ELSE <<template[k]>>])

\* text with text[i..j] replaced by the expansion of template.
Splice(text, i, j, template) ==
    SubSeq(text, 1, i - 1)
        \o GetSubstitution(template, SubSeq(text, i, j))
        \o SubSeq(text, j + 1, Len(text))

\* Where /^SERVER_VERSION=.*$/m can start.
LaunchStarts(text) ==
    {i \in 1..Len(text) : IsLineStart(text, i) /\ text[i] = "SERVER_VERSION="}

\* A faulty variant of ReplaceLaunch with the g flag: every matching line is replaced.
RECURSIVE ReplaceLaunchEvery(_, _)
ReplaceLaunchEvery(text, version) ==
    IF LaunchStarts(text) = {} THEN text
    ELSE LET i == Max(LaunchStarts(text))
             j == DotRunEnd(text, i + 1)
         IN ReplaceLaunchEvery(SubSeq(text, 1, i - 1), version)
                \o GetSubstitution(<<"SERVER_VERSION=">> \o version, SubSeq(text, i, j))
                \o SubSeq(text, j + 1, Len(text))

\* launchShContent.replace(/^SERVER_VERSION=.*$/m, `SERVER_VERSION=${modpackVersion}`):
\* the leftmost match only (no g flag); no match leaves the text as it is.
ReplaceLaunch(text, version) ==
    IF LaunchStarts(text) = {} THEN text
    ELSE LET i == Min(LaunchStarts(text))
         IN Splice(text, i, DotRunEnd(text, i + 1),
                   <<"SERVER_VERSION=">> \o version)

\* After (COPY|ADD) at i: the pairs <<a, b>> where \s+ ends at a, [^ ]+ ends at
\* b, \.(jar|sh) is the token behind b and \s+ can go on behind that.
DockerSplits(text, i) ==
    {ab \in ((i + 1)..WsRunEnd(text, i + 1)) \X ((i + 2)..Len(text)) :
        /\ ab[2] > ab[1]
        /\ ab[2] <= NonSpaceRunEnd(text, ab[1] + 1)
        /\ ab[2] + 2 <= Len(text)
        /\ text[ab[2] + 1] \in {".jar", ".sh"}
        /\ IsWs(text[ab[2] + 2])}

\* Where /^(COPY|ADD)\s+[^ ]+\.(jar|sh)\s+.*$/m can start.
DockerStarts(text) ==
    {i \in 1..Len(text) :
        /\ IsLineStart(text, i)
        /\ text[i] \in {"COPY", "ADD"}
        /\ DockerSplits(text, i) /= {}}

\* Where the match that starts at i ends. The quantifiers are greedy and give
\* back in order: the longest \s+, then the longest [^ ]+, then the longest
\* \s+ (which runs over line feeds), then .* to the end of that line.
DockerMatchEnd(text, i) ==
    LET a == Max({ab[1] : ab \in DockerSplits(text, i)})
        b == Max({ab[2] : ab \in {x \in DockerSplits(text, i) : x[1] = a}})
        c == WsRunEnd(text, b + 2)
    IN DotRunEnd(text, c + 1)

\* The replacement of the Dockerfile patch.
CopyDirective(jar) ==
    <<"COPY", " ">> \o jar \o <<" ", "/server/minecraft_server", ".jar">>

\* dockerfileContent.replace(/^(COPY|ADD)\s+[^ ]+\.(jar|sh)\s+.*$/m,
\*                           `COPY ${serverJarFile} /server/minecraft_server.jar`)
ReplaceDocker(text, jar) ==
    IF DockerStarts(text) = {} THEN text
    ELSE LET i == Min(DockerStarts(text))
         IN Splice(text, i, DockerMatchEnd(text, i), CopyDirective(jar))

\* ------------------------------------------------------------ findServerJarInTempDir
EndsWith(name, t) == name /= <<>> /\ name[Len(name)] = t

\* The callback of files.find.
IsServerJar(name) ==
    /\ EndsWith(name, ".jar")
    /\ ~Includes(name, "installer")
    /\ ~Includes(name, "client")

\* files.find(...) || null on the entries readdir returned.
FindJar(entries) ==
    LET hits == {i \in 1..Len(entries) : IsServerJar(entries[i])}
    IN IF hits = {} THEN Null ELSE entries[Min(hits)]

\* findServerJarInTempDir: a failing readdir is caught and gives null.
FindServerJarInTempDir(exists, readable, entries) ==
    IF exists /\ readable THEN FindJar(entries) ELSE Null

\* ------------------------------------------------------------ updateRepoFiles
RepoFiles == {"launch.sh", "Dockerfile"}

\* What updateRepoFiles leaves behind.
Outcome(l, d, lc, dc, e) ==
    [launch |-> l, docker |-> d, launchShContent |-> lc,
     dockerfileContent |-> dc, err |-> e]

\* A faulty variant of UpdateResult that returns early when no JAR was found.
UpdateResultEarlyReturn(jar, launchText, dockerText, version, w) ==
    IF jar = Null
    THEN Outcome(launchText, dockerText, Absent, Absent, "none")
    ELSE IF launchText = Absent
    THEN Outcome(launchText, dockerText, Absent, Absent, "launch.sh")
    ELSE IF "launch.sh" \notin w
    THEN Outcome(launchText, dockerText, launchText, Absent, "launch.sh")
    ELSE IF dockerText /= Absent
    THEN IF "Dockerfile" \in w
         THEN Outcome(ReplaceLaunch(launchText, version),
                      ReplaceDocker(dockerText, jar), launchText, dockerText, "none")
         ELSE Outcome(ReplaceLaunch(launchText, version),
                      dockerText, launchText, dockerText, "Dockerfile")
    ELSE Outcome(ReplaceLaunch(launchText, version),
                 dockerText, launchText, Absent, "none")

\* A faulty variant of UpdateResult whose guard is existsSync(DOCKERFILE_PATH) alone.
UpdateResultNoJarGuard(jar, launchText, dockerText, version, w) ==
    IF launchText = Absent
    THEN Outcome(launchText, dockerText, Absent, Absent, "launch.sh")
    ELSE IF "launch.sh" \notin w
    THEN Outcome(launchText, dockerText, launchText, Absent, "launch.sh")
    ELSE IF dockerText /= Absent
    THEN IF "Dockerfile" \in w
         THEN Outcome(ReplaceLaunch(launchText, version),
                      ReplaceDocker(dockerText, jar), launchText, dockerText, "none")
         ELSE Outcome(ReplaceLaunch(launchText, version),
                      dockerText, launchText, dockerText, "Dockerfile")
    ELSE Outcome(ReplaceLaunch(launchText, version),
                 dockerText, launchText, Absent, "none")

\* The body of updateRepoFiles behind findServerJarInTempDir: launch.sh is read,
\* patched and written; the Dockerfile is read, patched and written only if a
\* JAR was found and the Dockerfile exists. A failing readFile or writeFile
\* throws out of the function (err names the file).
UpdateResult(jar, launchText, dockerText, version, w) ==
    IF launchText = Absent
    THEN Outcome(launchText, dockerText, Absent, Absent, "launch.sh")
    ELSE IF "launch.sh" \notin w
    THEN Outcome(launchText, dockerText, launchText, Absent, "launch.sh")
    ELSE IF jar /= Null /\ dockerText /= Absent
    THEN IF "Dockerfile" \in w
         THEN Outcome(ReplaceLaunch(launchText, version),
                      ReplaceDocker(dockerText, jar), launchText, dockerText, "none")
         ELSE Outcome(ReplaceLaunch(launchText, version),
                      dockerText, launchText, dockerText, "Dockerfile")
    ELSE Outcome(ReplaceLaunch(launchText, version),
                 dockerText, launchText, Absent, "none")

\* updateRepoFiles(serverFileInfo.modpackVersion), step 5 of main.
UpdateRepoFiles ==
    /\ UNCHANGED response
    /\ pc = "update"
    /\ LET jar == FindServerJarInTempDir(tempDir, dirReadable, tempEntries)
           r == UpdateResult(jar, launch, docker, serverFileInfo.modpackVersion, writable)
       IN /\ serverJarFile' = jar
          /\ launch' = r.launch
          /\ docker' = r.docker
          /\ launchShContent' = r.launchShContent
          /\ dockerfileContent' = r.dockerfileContent
          /\ err' = r.err
          /\ pc' = IF r.err = "none" THEN "finally" ELSE "catch"
    /\ started' = Append(started, "patch")
    /\ UNCHANGED <<apiKey, tempDir, dirReadable, tempEntries, zipFile, fileStream,
                   files, serverFileInfo, writable, exitCode>>

\* ------------------------------------------------------------ the process
\* The HTTP status codes the download answers with.
Statuses == {200, 404, 500}

\* A faulty variant of ResponseOk that takes every response.
ResponseAlwaysOk(status) == TRUE

\* response.ok: the status is in the range 200-299.
ResponseOk(status) == status >= 200 /\ status <= 299

\* What the archives hold at their top level, in readdir order.
ArchiveContents ==
    { <<>>,
      <<<<"forge-", "installer", ".jar">>, <<"server", ".jar">>>>,
      <<<<"mods">>, <<"forge-", "installer", ".jar">>>> }

\* The try block is left by an exception: control goes to the catch clause.
Throw(e) ==
    /\ err' = e
    /\ pc' = "catch"

\* Module level, lines 22-32: without the API key the process exits at once.
Start ==
    /\ UNCHANGED response
    /\ pc = "start"
    /\ IF apiKey
       THEN pc' = "main" /\ exitCode' = exitCode
       ELSE pc' = "exited" /\ exitCode' = 1
    /\ UNCHANGED <<apiKey, tempDir, dirReadable, tempEntries, zipFile, fileStream,
                   files, serverFileInfo, launch, docker, writable, launchShContent,
                   dockerfileContent, serverJarFile, err, started>>

\* Step 1 of main: fs.mkdir(TEMP_DIR, { recursive: true }).
Mkdir ==
    /\ UNCHANGED response
    /\ pc = "main"
    /\ started' = Append(started, "mkdir")
    /\ \/ /\ tempDir' = TRUE
          /\ pc' = "resolve"
          /\ err' = err
       \/ /\ ~tempDir
          /\ tempDir' = tempDir
          /\ Throw("mkdir")
    /\ UNCHANGED <<apiKey, dirReadable, tempEntries, zipFile, fileStream, files,
                   serverFileInfo, launch, docker, writable, launchShContent,
                   dockerfileContent, serverJarFile, exitCode>>

\* Step 2 of main: findLatestServerFile().
FindLatestServerFile ==
    /\ UNCHANGED response
    /\ pc = "resolve"
    /\ started' = Append(started, "resolve")
    /\ \/ /\ Throw("getModFiles")
          /\ serverFileInfo' = serverFileInfo
       \/ /\ ~files.isArray
          /\ Throw("notArray")
          /\ serverFileInfo' = serverFileInfo
       \/ /\ files.isArray
          /\ LatestIndex(files.data) = 0
          /\ Throw("noServerFile")
          /\ serverFileInfo' = serverFileInfo
       \/ /\ files.isArray
          /\ LatestIndex(files.data) /= 0
          /\ Throw("getFile")
          /\ serverFileInfo' = serverFileInfo
       \/ /\ files.isArray
          /\ LatestIndex(files.data) /= 0
          /\ serverFileInfo' = FileInfo(files.data, LatestIndex(files.data))
          /\ pc' = "download"
          /\ err' = err
    /\ UNCHANGED <<apiKey, tempDir, dirReadable, tempEntries, zipFile, fileStream,
                   files, launch, docker, writable, launchShContent,
                   dockerfileContent, serverJarFile, exitCode>>

\* Step 3 of main, downloadFile up to the await of the promise: fetch, the
\* response.ok test, createWriteStream and pipe.
DownloadFile ==
    /\ pc = "download"
    /\ started' = Append(started, "download")
    /\ \/ /\ Throw("fetch")
          /\ UNCHANGED <<fileStream, zipFile, response>>
       \/ \E status \in Statuses :
             /\ response' = status
             /\ IF ResponseOk(status)
                THEN /\ fileStream' = "open"
                     /\ zipFile' = "partial"
                     /\ pc' = "pipe"
                     /\ err' = err
                ELSE /\ Throw("http")
                     /\ UNCHANGED <<fileStream, zipFile>>
    /\ UNCHANGED <<apiKey, tempDir, dirReadable, tempEntries, files, serverFileInfo,
                   launch, docker, writable, launchShContent, dockerfileContent,
                   serverJarFile, exitCode>>

\* fileStream emits "finish": the promise resolves and downloadFile returns.
\* The stream was created with autoClose, which closes the descriptor.
StreamFinish ==
    /\ UNCHANGED response
    /\ pc = "pipe"
    /\ fileStream' = "closed"
    /\ zipFile' = "complete"
    /\ pc' = "extract"
    /\ UNCHANGED <<apiKey, tempDir, dirReadable, tempEntries, files, serverFileInfo,
                   launch, docker, writable, launchShContent, dockerfileContent,
                   serverJarFile, err, exitCode, started>>

\* response.body emits "error": the promise rejects. pipe() unpipes but does
\* not end the destination, and downloadFile does not either.
BodyError ==
    /\ UNCHANGED response
    /\ pc = "pipe"
    /\ Throw("body")
    /\ UNCHANGED <<apiKey, tempDir, dirReadable, tempEntries, zipFile, fileStream,
                   files, serverFileInfo, launch, docker, writable, launchShContent,
                   dockerfileContent, serverJarFile, exitCode, started>>

\* fileStream emits "error" (the file cannot be opened or written): it has no
\* listener, so the event is an uncaught exception and the process dies.
StreamError ==
    /\ UNCHANGED response
    /\ pc = "pipe"
    /\ fileStream' = "closed"
    /\ err' = "stream"
    /\ pc' = "exited"
    /\ exitCode' = 1
    /\ UNCHANGED <<apiKey, tempDir, dirReadable, tempEntries, zipFile, files,
                   serverFileInfo, launch, docker, writable, launchShContent,
                   dockerfileContent, serverJarFile, started>>

\* Step 4 of main: extractServerFiles().
ExtractServerFiles ==
    /\ UNCHANGED response
    /\ pc = "extract"
    /\ started' = Append(started, "extract")
    /\ \/ /\ Throw("extract")
          /\ tempEntries' = tempEntries
       \/ \E es \in ArchiveContents :
             /\ tempEntries' = <<SERVER_FILE_NAME>> \o es
             /\ pc' = "update"
             /\ err' = err
    /\ UNCHANGED <<apiKey, tempDir, dirReadable, zipFile, fileStream, files,
                   serverFileInfo, launch, docker, writable, launchShContent,
                   dockerfileContent, serverJarFile, exitCode>>

\* The catch clause of main: console.error and process.exit(1), which ends
\* the process there: the finally clause does not run.
Catch ==
    /\ UNCHANGED response
    /\ pc = "catch"
    /\ pc' = "exited"
    /\ exitCode' = 1
    /\ UNCHANGED <<apiKey, tempDir, dirReadable, tempEntries, zipFile, fileStream,
                   files, serverFileInfo, launch, docker, writable, launchShContent,
                   dockerfileContent, serverJarFile, err, started>>

\* The finally clause of main, reached when the try block completes: the
\* scratch directory is removed if it exists. A rejected fs.rm leaves main()
\* rejected with no handler: exit status 1 (0 on a runtime that only warns).
Finally ==
    /\ UNCHANGED response
    /\ pc = "finally"
    /\ pc' = "exited"
    /\ \/ /\ tempDir' = FALSE
          /\ tempEntries' = <<>>
          /\ zipFile' = "absent"
          /\ exitCode' = 0
          /\ err' = err
       \/ /\ tempDir
          /\ err' = "rm"
          /\ \E code \in {0, 1} : exitCode' = code
          /\ UNCHANGED <<tempDir, tempEntries, zipFile>>
    /\ UNCHANGED <<apiKey, dirReadable, fileStream, files, serverFileInfo, launch,
                   docker, writable, launchShContent, dockerfileContent,
                   serverJarFile, started>>

Next ==
    \/ Start
    \/ Mkdir
    \/ FindLatestServerFile
    \/ DownloadFile
    \/ StreamFinish
    \/ BodyError
    \/ StreamError
    \/ ExtractServerFiles
    \/ UpdateRepoFiles
    \/ Catch
    \/ Finally

\* ------------------------------------------------------------ inputs
\* The listing of the end-to-end scenario: (a) another version, (b) no server
\* pack, (c) the match, and a second match with a bare file name.
ScenarioFiles ==
    << [gameVersion |-> <<"1.20">>, serverPackFileId |-> 7, fileDate |-> 1,
        fileName |-> <<"pack-1", ".zip">>],
       [gameVersion |-> <<"1.21">>, serverPackFileId |-> 0, fileDate |-> 2,
        fileName |-> <<"pack-2", ".zip">>],
       [gameVersion |-> <<"1.21">>, serverPackFileId |-> 7, fileDate |-> 2,
        fileName |-> <<"pack-3", ".zip">>],
       [gameVersion |-> <<"1.20", "1.21">>, serverPackFileId |-> 7, fileDate |-> 1,
        fileName |-> <<"pack-4">>] >>

\* Values of response.data in the runs of the whole process.
Responses ==
    { [isArray |-> FALSE, data |-> <<>>],
      [isArray |-> TRUE, data |-> <<>>],
      [isArray |-> TRUE, data |-> SubSeq(ScenarioFiles, 1, 2)],
      [isArray |-> TRUE, data |-> ScenarioFiles] }

\* Every listing of at most MaxFiles entries.
Listings ==
    {[isArray |-> FALSE, data |-> <<>>]}
        \cup {[isArray |-> TRUE, data |-> d] : d \in SeqUpTo(FileMetadata, MaxFiles)}

\* Version labels: plain ones, and one that holds a replacement pattern.
Versions == {<<"1">>, <<"2">>, <<"2", "$&">>}

LaunchLines ==
    { <<"x">>, <<>>,
      <<"SERVER_VERSION=", "1">>, <<"SERVER_VERSION=", "2">>, <<"SERVER_VERSION=">>,
      <<"x", " ", "SERVER_VERSION=", "1">> }

LaunchTexts == {Join(ls) : ls \in SeqUpTo(LaunchLines, MaxLaunchLines)}

SomeLaunchTexts ==
    { Absent, <<"x">>,
      Join(<<<<"x">>, <<"SERVER_VERSION=", "1">>, <<"x">>>>) }

DockerLines ==
    { <<"FROM", " ", "x">>,
      <<"COPY", " ", "x", ".jar", " ", "/x">>,
      <<"ADD", " ", "x", ".sh", " ", "/x">>,
      <<"COPY", "\t", "x", ".sh", "\t", "/x", ".sh">>,
      <<"COPY", " ", "x", " ", "/x">>,
      <<"x", ".sh", " ", "x">> }

DockerTexts == {Join(ls) : ls \in SeqUpTo(DockerLines, MaxDockerLines)}

SomeDockerTexts ==
    { Absent, <<"FROM", " ", "x">>,
      Join(<<<<"FROM", " ", "x">>, <<"COPY", " ", "x", ".jar", " ", "/x">>>>) }

EntryNames ==
    { SERVER_FILE_NAME, <<"mods">>, <<"server", ".jar">>, <<"forge", ".jar">>,
      <<"forge-", "installer", ".jar">>, <<"client", ".jar">>, <<"Installer", ".jar">> }

\* The directory listings of at most MaxEntries names: no name twice.
EntryLists ==
    {es \in SeqUpTo(EntryNames, MaxEntries) :
        \A i, j \in 1..Len(es) : es[i] = es[j] => i = j}

SomeEntryLists ==
    { <<SERVER_FILE_NAME>>,
      <<SERVER_FILE_NAME, <<"forge-", "installer", ".jar">>, <<"server", ".jar">>>> }

\* ------------------------------------------------------------ specifications
\* The process before the module's first statement.
Init ==
    /\ pc = "start"
    /\ apiKey \in BOOLEAN
    /\ tempDir \in BOOLEAN
    /\ dirReadable \in BOOLEAN
    /\ tempEntries = <<>>
    /\ zipFile \in (IF tempDir THEN {"absent", "old"} ELSE {"absent"})
    /\ fileStream = "none"
    /\ response = 0
    /\ files \in Responses
    /\ serverFileInfo = NoInfo
    /\ launch \in SomeLaunchTexts
    /\ docker \in SomeDockerTexts
    /\ writable \in SUBSET RepoFiles
    /\ launchShContent = Absent
    /\ dockerfileContent = Absent
    /\ serverJarFile = Null
    /\ err = "none"
    /\ exitCode = Running
    /\ started = <<>>

Spec == Init /\ [][Next]_vars

\* main() about to call findLatestServerFile, for every listing the API may
\* answer with.
InitResolve ==
    /\ pc = "resolve"
    /\ apiKey = TRUE
    /\ tempDir = TRUE
    /\ dirReadable = TRUE
    /\ tempEntries = <<>>
    /\ zipFile = "absent"
    /\ fileStream = "none"
    /\ response = 0
    /\ files \in Listings
    /\ serverFileInfo = NoInfo
    /\ launch = Absent
    /\ docker = Absent
    /\ writable = RepoFiles
    /\ launchShContent = Absent
    /\ dockerfileContent = Absent
    /\ serverJarFile = Null
    /\ err = "none"
    /\ exitCode = Running
    /\ started = <<"mkdir">>

NextResolve == FindLatestServerFile

SpecResolve == InitResolve /\ [][NextResolve]_vars

\* main() about to call updateRepoFiles: the archive is downloaded and
\* extracted, the version label is known.
InitUpdate(versions, launchTexts, dockerTexts, entryLists) ==
    /\ pc = "update"
    /\ apiKey = TRUE
    /\ tempDir = TRUE
    /\ dirReadable \in BOOLEAN
    /\ tempEntries \in entryLists
    /\ zipFile = "complete"
    /\ fileStream = "closed"
    /\ response = 200
    /\ files = [isArray |-> TRUE, data |-> ScenarioFiles]
    /\ \E v \in versions :
          serverFileInfo = [FileInfo(ScenarioFiles, 3) EXCEPT !.modpackVersion = v]
    /\ launch \in launchTexts
    /\ docker \in dockerTexts
    /\ writable \in SUBSET RepoFiles
    /\ launchShContent = Absent
    /\ dockerfileContent = Absent
    /\ serverJarFile = Null
    /\ err = "none"
    /\ exitCode = Running
    /\ started = <<"mkdir", "resolve", "download", "extract">>

NextUpdate == UpdateRepoFiles

\* updateRepoFiles on every launch.sh and version label.
SpecLaunch ==
    InitUpdate(Versions, LaunchTexts \cup {Absent}, SomeDockerTexts, SomeEntryLists)
        /\ [][NextUpdate]_vars

\* updateRepoFiles on every content of the scratch directory.
SpecLocate ==
    InitUpdate({<<"2">>}, SomeLaunchTexts, SomeDockerTexts, EntryLists)
        /\ [][NextUpdate]_vars

\* updateRepoFiles on every Dockerfile.
SpecDocker ==
    InitUpdate({<<"2">>}, SomeLaunchTexts, DockerTexts \cup {Absent}, SomeEntryLists)
        /\ [][NextUpdate]_vars

\* ------------------------------------------------------------ properties
Last(s) == s[Len(s)]
Range(s) == {s[i] : i \in 1..Len(s)}

\* The stage of main() an error comes from.
StageOf(e) ==
    CASE e = "mkdir" -> "mkdir"
      [] e \in {"getModFiles", "notArray", "noServerFile", "getFile"} -> "resolve"
      [] e \in {"fetch", "http", "body", "stream"} -> "download"
      [] e = "extract" -> "extract"
      [] e \in {"launch.sh", "Dockerfile"} -> "patch"
      [] OTHER -> "none"

AllStages == <<"mkdir", "resolve", "download", "extract", "patch">>

\* C1: once the process has exited after a run of main(), the scratch
\* directory ./temp_server_files does not exist, whichever stage failed.
C1_NoScratchDirAfterExit ==
    (pc = "exited" /\ started /= <<>>) => ~tempDir

\* C2: a failing stage is the last stage started and the process exits with
\* status 1; when every stage succeeded the process exits with status 0.
C2_AbortAndExitStatus ==
    /\ (err /= "none" /\ StageOf(err) /= "none") =>
          /\ Last(started) = StageOf(err)
          /\ pc \in {"catch", "exited"}
          /\ pc = "exited" => exitCode = 1
    /\ (pc = "exited" /\ started = AllStages /\ StageOf(err) = "none") =>
          exitCode = 0

\* The entries of a listing that carry the target version among their tags
\* and a server pack id.
Tagged(f) == f.gameVersion /= NoTags /\ MINECRAFT_VERSION \in Range(f.gameVersion)
EligibleSet(fs) == {i \in 1..Len(fs) : Tagged(fs[i]) /\ fs[i].serverPackFileId /= 0}

\* C3: the candidates of findLatestServerFile hold no entry without the target
\* version among its tags and none without a server pack id; entries without
\* tags are left out and raise no error: the only error of the filter's
\* result is "no server file", raised exactly when no entry is eligible.
C3_CandidatesEligible ==
    files.isArray =>
        /\ Range(Candidates(files.data)) = EligibleSet(files.data)
        /\ pc = "download" => serverFileInfo.index \in EligibleSet(files.data)
        /\ err = "noServerFile" => EligibleSet(files.data) = {}
        /\ (pc /= "resolve" /\ EligibleSet(files.data) = {}) =>
              err \in {"getModFiles", "noServerFile"}

\* C3 happens: a listing with an entry without tags and a tagged entry without
\* server pack id, resolved to a third entry.
C3_Witness ==
    /\ pc = "download"
    /\ \E i, j \in 1..Len(files.data) :
          /\ files.data[i].gameVersion = NoTags
          /\ files.data[i].serverPackFileId /= 0
          /\ Tagged(files.data[j])
          /\ files.data[j].serverPackFileId = 0
          /\ serverFileInfo.index \notin {i, j}

\* C4: the entry findLatestServerFile selects has the greatest release date of
\* the eligible entries, and is the first of the listing among those with
\* that date.
C4_LatestFirst ==
    pc = "download" =>
        LET fs == files.data
            sel == serverFileInfo.index
        IN /\ sel \in EligibleSet(fs)
           /\ \A j \in EligibleSet(fs) :
                 /\ fs[j].fileDate <= fs[sel].fileDate
                 /\ fs[j].fileDate = fs[sel].fileDate => sel <= j

\* C4 happens: an older eligible entry first, then two eligible entries that
\* share the greatest date; the first of the two is selected.
C4_Witness ==
    /\ pc = "download"
    /\ Len(files.data) = 3
    /\ EligibleSet(files.data) = {1, 2, 3}
    /\ files.data[1].fileDate < files.data[2].fileDate
    /\ files.data[2].fileDate = files.data[3].fileDate
    /\ serverFileInfo.index = 2

\* updateRepoFiles has written launch.sh.
LaunchPatched ==
    /\ pc \in {"finally", "catch"}
    /\ launchShContent /= Absent
    /\ err /= "launch.sh"

IsVersionLine(line) == line /= <<>> /\ line[1] = "SERVER_VERSION="
VersionLine == <<"SERVER_VERSION=">> \o serverFileInfo.modpackVersion

\* C5 as stated: for every launch.sh and every version label V, the patched
\* file has exactly one line SERVER_VERSION=V, and every other line is the line
\* at the same position before the patch.
C5_ExactlyOneVersionLine ==
    LaunchPatched =>
        LET old == Lines(launchShContent)
            new == Lines(launch)
            hits == {j \in 1..Len(new) : new[j] = VersionLine}
        IN /\ Cardinality(hits) = 1
           /\ Len(new) = Len(old)
           /\ \A j \in 1..Len(new) : j \notin hits => new[j] = old[j]

\* C5 amended: a launch.sh without a line that starts with SERVER_VERSION= is
\* written back unchanged; otherwise, for a version label V that holds no
\* replacement pattern, the first such line reads SERVER_VERSION=V and every
\* other line is the line at the same position before the patch.
C5_FirstVersionLineReplaced ==
    LaunchPatched =>
        LET old == Lines(launchShContent)
            new == Lines(launch)
            hits == {j \in 1..Len(old) : IsVersionLine(old[j])}
        IN IF hits = {} THEN launch = launchShContent
           ELSE "$&" \notin Range(serverFileInfo.modpackVersion) =>
                   /\ Len(new) = Len(old)
                   /\ new[Min(hits)] = VersionLine
                   /\ \A j \in 1..Len(old) : j /= Min(hits) => new[j] = old[j]

\* C5 happens: a launch.sh with two SERVER_VERSION= lines behind another line,
\* patched with a plain label that differs from the old one.
C5_Witness ==
    /\ LaunchPatched
    /\ "$&" \notin Range(serverFileInfo.modpackVersion)
    /\ LET old == Lines(launchShContent)
       IN /\ Len(old) = 3
          /\ ~IsVersionLine(old[1])
          /\ IsVersionLine(old[2])
          /\ IsVersionLine(old[3])
          /\ old[2] /= VersionLine
          /\ old[3] /= VersionLine
    /\ Lines(launch)[2] = VersionLine

\* C6: updateRepoFiles leaves the Dockerfile as it is (and does not create
\* it) when no server JAR was located and when the Dockerfile does not exist,
\* and neither case raises an error: the call fails only if launch.sh cannot be
\* read or written.
C6_DockerfileUntouched ==
    [][(pc = "update" /\ (serverJarFile' = Null \/ docker = Absent)) =>
          /\ docker' = docker
          /\ dockerfileContent' = Absent
          /\ err' /= "Dockerfile"
          /\ err' /= "none" => (launch = Absent \/ "launch.sh" \notin writable)]_vars

\* C6 happens: no JAR in the scratch directory, a writable Dockerfile with a
\* COPY line, and updateRepoFiles returned.
C6_Witness ==
    /\ pc = "finally"
    /\ serverJarFile = Null
    /\ docker /= Absent
    /\ DockerStarts(docker) /= {}
    /\ "Dockerfile" \in writable

\* No top-level entry of the scratch directory ends in .jar without holding
\* "installer" or "client", or the directory cannot be read.
NoServerJar ==
    \/ ~dirReadable
    \/ \A i \in 1..Len(tempEntries) :
          \/ Last(tempEntries[i]) /= ".jar"
          \/ "installer" \in Range(tempEntries[i])
          \/ "client" \in Range(tempEntries[i])

\* C7: when the scratch directory cannot be read or holds no server JAR,
\* findServerJarInTempDir returns null without raising, launch.sh is still
\* patched with the new version, the Dockerfile patch is skipped and the run
\* goes on: updateRepoFiles fails only if launch.sh cannot be read or written.
C7_NoJarDegrades ==
    (pc \in {"finally", "catch"}) =>
        /\ serverJarFile = Null <=> NoServerJar
        /\ NoServerJar =>
              /\ dockerfileContent = Absent
              /\ err \in {"none", "launch.sh"}
              /\ (launch /= Absent /\ "launch.sh" \in writable) =>
                    /\ pc = "finally"
                    /\ err = "none"
                    /\ launchShContent /= Absent
                    /\ launch = ReplaceLaunch(launchShContent, serverFileInfo.modpackVersion)

\* C7 happens: the directory holds only an installer JAR, launch.sh was
\* rewritten with a new version line, and a patchable Dockerfile was passed over.
C7_Witness ==
    /\ pc = "finally"
    /\ dirReadable
    /\ \E i \in 1..Len(tempEntries) : "installer" \in Range(tempEntries[i])
    /\ serverJarFile = Null
    /\ launch /= launchShContent
    /\ VersionLine \in Range(Lines(launch))
    /\ docker /= Absent
    /\ DockerStarts(docker) /= {}
    /\ "Dockerfile" \in writable

\* C8: a response with a status outside 200-299 makes downloadFile fail; it
\* opens no stream and writes no file at the destination, no later stage runs,
\* and the process exits with status 1.
C8_HttpErrorNoFile ==
    (response /= 0 /\ (response < 200 \/ response > 299)) =>
        /\ err = "http"
        /\ fileStream = "none"
        /\ zipFile \in {"absent", "old"}
        /\ Last(started) = "download"
        /\ pc \in {"catch", "exited"}
        /\ pc = "exited" => exitCode = 1

\* C8 happens: the process has exited behind a 404.
C8_Witness ==
    /\ response = 404
    /\ pc = "exited"
    /\ exitCode = 1

\* C9: once downloadFile has returned or failed after it opened the
\* destination file, the write stream is flushed and closed.
C9_StreamClosed ==
    (fileStream /= "none" /\ pc /= "pipe") => fileStream = "closed"

\* The Dockerfile patch ran: the file was read and written.
DockerPatched ==
    /\ pc \in {"finally", "catch"}
    /\ dockerfileContent /= Absent
    /\ err = "none"

\* C10: the Dockerfile patch replaces exactly one line, the first line that
\* matches the COPY/ADD pattern, with COPY <jar> /server/minecraft_server.jar
\* and leaves every other line as it was; without a matching line the content
\* is written back unchanged.
C10_OneLineReplaced ==
    DockerPatched =>
        LET old == Lines(dockerfileContent)
            new == Lines(docker)
            hits == {j \in 1..Len(old) : DockerStarts(old[j]) /= {}}
        IN IF hits = {} THEN docker = dockerfileContent
           ELSE /\ Len(new) = Len(old)
                /\ new[Min(hits)] = CopyDirective(serverJarFile)
                /\ \A j \in 1..Len(old) : j /= Min(hits) => new[j] = old[j]

====
